---- MODULE Spec2Model ----
(***************************************************************************)
(* DistLockCatalogImpl (mongo/s/catalog/dist_lock_catalog_impl.cpp): the   *)
(* client side of the distributed lock protocol.  Every operation selects  *)
(* a host, builds one findAndModify command, runs it through the command   *)
(* runner and maps the raw response to a Status / StatusWith.              *)
(*                                                                         *)
(* The config server that executes findAndModify is not part of the        *)
(* translation unit; it is modelled as an atomic single-document update    *)
(* with the upsert semantics of the command the client issues, on          *)
(* collections keyed by name (locks) and process (lockpings).              *)
(***************************************************************************)
EXTENDS Integers, FiniteSets, Sequences, TLC

\* ------------------------------------------------------------------ bounds
\* Concurrent callers of the catalog.
NumClients == 2
\* OIDs available as lockSessionID.
NumTokens == 3
\* Lock names.
NumNames == 2
\* Calls issued in one behaviour.
MaxCalls == 3
\* Gateway faults (failed host selection, failed or refused command, write
\* concern timeout) in one behaviour.
MaxFaults == 1

Clients == 1..NumClients
Tokens == 1..NumTokens
Names == 1..NumNames

\* ------------------------------------------------------- LocksType states
UNLOCKED == "UNLOCKED"

LOCKED == "LOCKED"

\* --------------------------------------------------------------- documents
\* BSONObj(): the empty document.
EmptyObj == [f \in {} |-> 0]

isEmpty(doc) == DOMAIN doc = {}

LockFields == {"name", "ts", "state", "who", "process", "when", "why"}

\* LocksType::parseBSON: the document decodes when it carries the fields of
\* a lock record.
LocksType_parseBSON(doc) == LockFields \subseteq DOMAIN doc

\* ------------------------------------------------------------ status values
\* Status / StatusWith<T>: code "OK" carries val, any other code a reason.
StatusOK(v) == [code |-> "OK", reason |-> "", val |-> v]

StatusErr(c, r) == [code |-> c, reason |-> r, val |-> EmptyObj]

isOK(st) == st.code = "OK"

\* ------------------------------------------------------ command responses
\* A response document: the command status (ok, code, errmsg), the
\* writeConcernError element and the value element.
\*   wce.t : "absent" | "nonobj" (not an Object) | "badobj" (an Object that
\*           WCErrorDetail cannot parse) | "wcerr" (well-formed, errmsg)
\*   value.t : "absent" | "null" | "scalar" | "obj" (doc)
WceAbsent == [t |-> "absent", errmsg |-> ""]

ValAbsent == [t |-> "absent", doc |-> EmptyObj]

ValNull == [t |-> "null", doc |-> EmptyObj]

ValObj(d) == [t |-> "obj", doc |-> d]

Response(ok, code, errmsg, wce, value) ==
    [ok |-> ok, code |-> code, errmsg |-> errmsg, wce |-> wce, value |-> value]

\* getStatusFromCommandResult: OK when the ok field is true, else the
\* response's own code and errmsg.
getStatusFromCommandResult(r) ==
    IF r.ok THEN StatusOK(EmptyObj) ELSE StatusErr(r.code, r.errmsg)

\* bsonExtractTypedField(responseObj, "writeConcernError", Object, ...)
bsonExtractTypedField_wce(r) ==
    CASE r.wce.t = "absent" -> StatusErr("NoSuchKey", "missing writeConcernError")
      [] r.wce.t = "nonobj" -> StatusErr("TypeMismatch", "writeConcernError wrong type")
      [] OTHER -> StatusOK(EmptyObj)

\* WCErrorDetail::parseBSON
WCErrorDetail_parseBSON(wce) == wce.t = "wcerr"

\* extractFindAndModifyNewObj taking a value that is not a document for
\* "nothing matched".
extractFindAndModifyNewObj_lenientValue(r) ==
    LET cmdStatus == getStatusFromCommandResult(r)
        wcErrStatus == bsonExtractTypedField_wce(r)
    IN  IF ~isOK(cmdStatus) THEN cmdStatus
        ELSE IF isOK(wcErrStatus)
             THEN IF ~WCErrorDetail_parseBSON(r.wce)
                  THEN StatusErr("UnsupportedFormat", "wcError parse")
                  ELSE StatusErr("WriteConcernFailed", r.wce.errmsg)
        ELSE IF wcErrStatus.code # "NoSuchKey" THEN wcErrStatus
        ELSE IF r.value.t = "obj" THEN StatusOK(r.value.doc)
        ELSE StatusOK(EmptyObj)

\* extractFindAndModifyNewObj returning the value document before looking at
\* the writeConcernError element.
extractFindAndModifyNewObj_valueFirst(r) ==
    LET cmdStatus == getStatusFromCommandResult(r)
        wcErrStatus == bsonExtractTypedField_wce(r)
    IN  IF ~isOK(cmdStatus) THEN cmdStatus
        ELSE IF r.value.t = "obj" THEN StatusOK(r.value.doc)
        ELSE IF isOK(wcErrStatus)
             THEN IF ~WCErrorDetail_parseBSON(r.wce)
                  THEN StatusErr("UnsupportedFormat", "wcError parse")
                  ELSE StatusErr("WriteConcernFailed", r.wce.errmsg)
        ELSE IF wcErrStatus.code # "NoSuchKey" THEN wcErrStatus
        ELSE IF r.value.t \in {"absent", "null"} THEN StatusOK(EmptyObj)
        ELSE StatusErr("UnsupportedFormat", "expected an object")

\* extractFindAndModifyNewObj reading the writeConcernError element before
\* the command status.
extractFindAndModifyNewObj_wcFirst(r) ==
    LET cmdStatus == getStatusFromCommandResult(r)
        wcErrStatus == bsonExtractTypedField_wce(r)
    IN  IF isOK(wcErrStatus)
        THEN IF ~WCErrorDetail_parseBSON(r.wce)
             THEN StatusErr("UnsupportedFormat", "wcError parse")
             ELSE StatusErr("WriteConcernFailed", r.wce.errmsg)
        ELSE IF ~isOK(cmdStatus) THEN cmdStatus
        ELSE IF wcErrStatus.code # "NoSuchKey" THEN wcErrStatus
        ELSE IF r.value.t = "obj" THEN StatusOK(r.value.doc)
        ELSE IF r.value.t \in {"absent", "null"} THEN StatusOK(EmptyObj)
        ELSE StatusErr("UnsupportedFormat", "expected an object")

\* extractFindAndModifyNewObj
extractFindAndModifyNewObj(r) ==
    LET cmdStatus == getStatusFromCommandResult(r)
        wcErrStatus == bsonExtractTypedField_wce(r)
    IN  IF ~isOK(cmdStatus) THEN cmdStatus
        ELSE IF isOK(wcErrStatus)
             THEN IF ~WCErrorDetail_parseBSON(r.wce)
                  THEN StatusErr("UnsupportedFormat", "wcError parse")
                  ELSE StatusErr("WriteConcernFailed", r.wce.errmsg)
        ELSE IF wcErrStatus.code # "NoSuchKey" THEN wcErrStatus
        ELSE IF r.value.t # "absent"
             THEN IF r.value.t = "null" THEN StatusOK(EmptyObj)
                  ELSE IF r.value.t # "obj"
                       THEN StatusErr("UnsupportedFormat", "expected an object")
                       ELSE StatusOK(r.value.doc)
        ELSE StatusOK(EmptyObj)

\* ------------------------------------------------- the findAndModify store
\* A query is a set of alternative clauses ($or); a clause is a document of
\* equality conditions.  A document matches when it satisfies one clause.
MatchesClause(d, cl) == \A f \in DOMAIN cl : f \in DOMAIN d /\ d[f] = cl[f]

Matches(d, query) == \E cl \in query : MatchesClause(d, cl)

\* {$set: u} applied to document d.
ApplySet(d, u) ==
    [f \in DOMAIN d \cup DOMAIN u |-> IF f \in DOMAIN u THEN u[f] ELSE d[f]]

\* The document an upsert inserts: the equality fields of the (single
\* clause) query, then the $set.
UpsertDoc(query, u) ==
    IF Cardinality(query) = 1
    THEN ApplySet(CHOOSE cl \in query : TRUE, u)
    ELSE ApplySet(EmptyObj, u)

FindAndModifyRequest_makeUpdate(ns, query, update) ==
    [ns |-> ns, query |-> query, update |-> update, upsert |-> FALSE, new |-> FALSE]

setUpsert(request, b) == [request EXCEPT !.upsert = b]

setShouldReturnNew(request, b) == [request EXCEPT !.new = b]

NoCmd == FindAndModifyRequest_makeUpdate("none", {}, EmptyObj)

\* The unique key of a collection: locks are keyed by name, lockpings by
\* process.
KeyOf(ns) == IF ns = "locks" THEN "name" ELSE "process"

\* A collection that does not enforce its key.
KeyTaken_never(coll, key, doc) == FALSE

\* An insert of doc collides with a document of coll that has its key.
KeyTaken(coll, key, doc) ==
    \E d \in coll : key \in DOMAIN doc /\ d[key] = doc[key]

\* One atomic execution of findAndModify on collection coll.  The result
\* is the set of possible outcomes [coll, resp]: the collection afterwards
\* and the command response.
\*  - a document matches: it is updated in place; value is the new or the
\*    old document;
\*  - nothing matches, upsert: the upsert document is inserted, unless its
\*    key is taken, which fails the command with DuplicateKey;
\*  - nothing matches, no upsert: value is null.
findAndModify(coll, cmd) ==
    LET matching == {d \in coll : Matches(d, cmd.query)}
        ins == UpsertDoc(cmd.query, cmd.update)
    IN  IF matching # {}
        THEN {[coll |-> (coll \ {d}) \cup {ApplySet(d, cmd.update)},
               resp |-> Response(TRUE, "OK", "", WceAbsent,
                                 ValObj(IF cmd.new THEN ApplySet(d, cmd.update) ELSE d))]
              : d \in matching}
        ELSE IF cmd.upsert
             THEN IF KeyTaken(coll, KeyOf(cmd.ns), ins)
                  THEN {[coll |-> coll,
                         resp |-> Response(FALSE, "DuplicateKey", "E11000",
                                           WceAbsent, ValAbsent)]}
                  ELSE {[coll |-> coll \cup {ins},
                         resp |-> Response(TRUE, "OK", "", WceAbsent,
                                           IF cmd.new THEN ValObj(ins) ELSE ValNull)]}
        ELSE {[coll |-> coll,
               resp |-> Response(TRUE, "OK", "", WceAbsent, ValNull)]}

\* ---------------------------------------------------- request construction
\* newLockDetails without the session token.
newLockDetails_noToken(lockSessionID, who, processId, time, why) ==
    [ts |-> 0, state |-> LOCKED, who |-> who,
     process |-> processId, when |-> time, why |-> why]

\* The $set document of grabLock and overtakeLock.
newLockDetails(lockSessionID, who, processId, time, why) ==
    [ts |-> lockSessionID, state |-> LOCKED, who |-> who,
     process |-> processId, when |-> time, why |-> why]

\* ping without setUpsert(true).
pingRequest_noUpsert(processID, ping) ==
    FindAndModifyRequest_makeUpdate("lockpings",
                                    {[process |-> processID]},
                                    [ping |-> ping])

pingRequest(processID, ping) ==
    setUpsert(FindAndModifyRequest_makeUpdate("lockpings",
                                              {[process |-> processID]},
                                              [ping |-> ping]),
              TRUE)

\* grabLock without setShouldReturnNew(true): the response carries the
\* document as it was before the update.
grabLockRequest_returnOld(lockID, lockSessionID, who, processId, time, why) ==
    setUpsert(FindAndModifyRequest_makeUpdate("locks",
                  {[name |-> lockID, state |-> UNLOCKED]},
                  newLockDetails(lockSessionID, who, processId, time, why)),
              TRUE)

\* grabLock without setUpsert(true).
grabLockRequest_noUpsert(lockID, lockSessionID, who, processId, time, why) ==
    setShouldReturnNew(
        FindAndModifyRequest_makeUpdate("locks",
            {[name |-> lockID, state |-> UNLOCKED]},
            newLockDetails(lockSessionID, who, processId, time, why)),
        TRUE)

grabLockRequest(lockID, lockSessionID, who, processId, time, why) ==
    setShouldReturnNew(
        setUpsert(FindAndModifyRequest_makeUpdate("locks",
                      {[name |-> lockID, state |-> UNLOCKED]},
                      newLockDetails(lockSessionID, who, processId, time, why)),
                  TRUE),
        TRUE)

\* overtakeLock sending grabLock's upsert.
overtakeLockRequest_upsert(lockID, lockSessionID, currentHolderTS, who, processId, time, why) ==
    setShouldReturnNew(
        setUpsert(FindAndModifyRequest_makeUpdate("locks",
                      {[name |-> lockID, state |-> UNLOCKED]},
                      newLockDetails(lockSessionID, who, processId, time, why)),
                  TRUE),
        TRUE)

\* overtakeLock matching the name alone, whoever holds it.
overtakeLockRequest_noFence(lockID, lockSessionID, currentHolderTS, who, processId, time, why) ==
    setShouldReturnNew(
        FindAndModifyRequest_makeUpdate("locks",
            {[name |-> lockID]},
            newLockDetails(lockSessionID, who, processId, time, why)),
        TRUE)

overtakeLockRequest(lockID, lockSessionID, currentHolderTS, who, processId, time, why) ==
    setShouldReturnNew(
        FindAndModifyRequest_makeUpdate("locks",
            {[name |-> lockID, state |-> UNLOCKED],
             [name |-> lockID, ts |-> currentHolderTS]},
            newLockDetails(lockSessionID, who, processId, time, why)),
        TRUE)

\* unlock clearing the token of the record it releases.
unlockRequest_clearToken(lockSessionID) ==
    FindAndModifyRequest_makeUpdate("locks",
                                    {[ts |-> lockSessionID]},
                                    [state |-> UNLOCKED, ts |-> 0])

\* unlock matching the token only while the record is LOCKED.
unlockRequest_lockedOnly(lockSessionID) ==
    FindAndModifyRequest_makeUpdate("locks",
                                    {[ts |-> lockSessionID, state |-> LOCKED]},
                                    [state |-> UNLOCKED])

\* unlock matching any LOCKED record, whatever its token.
unlockRequest_anyLocked(lockSessionID) ==
    FindAndModifyRequest_makeUpdate("locks",
                                    {[state |-> LOCKED]},
                                    [state |-> UNLOCKED])

unlockRequest(lockSessionID) ==
    FindAndModifyRequest_makeUpdate("locks",
                                    {[ts |-> lockSessionID]},
                                    [state |-> UNLOCKED])

\* ------------------------------------------------------ result mapping
\* What each operation returns for the StatusWith<RemoteCommandResponse>
\* that runCommand gave it (resultStatus.val is the response document).
pingResult(resultStatus) ==
    LET cmdStatus == getStatusFromCommandResult(resultStatus.val)
        findAndModifyStatus == extractFindAndModifyNewObj(resultStatus.val)
    IN  IF ~isOK(resultStatus) THEN StatusErr(resultStatus.code, resultStatus.reason)
        ELSE IF ~isOK(cmdStatus) THEN cmdStatus
        ELSE IF isOK(findAndModifyStatus) THEN StatusOK(EmptyObj)
        ELSE findAndModifyStatus

\* A tail that turns a write concern failure into "not acquired".
parseNewDoc_wcAsNotAcquired(findAndModifyStatus) ==
    IF findAndModifyStatus.code = "WriteConcernFailed" THEN StatusOK(EmptyObj)
    ELSE IF ~isOK(findAndModifyStatus) THEN findAndModifyStatus
    ELSE IF isEmpty(findAndModifyStatus.val) THEN StatusOK(EmptyObj)
    ELSE IF ~LocksType_parseBSON(findAndModifyStatus.val)
         THEN StatusErr("FailedToParse", "LocksType")
    ELSE StatusOK(findAndModifyStatus.val)

\* The tail shared by grabLock and overtakeLock: the empty document is the
\* empty LocksType(), any other document is decoded.
parseNewDoc(findAndModifyStatus) ==
    IF ~isOK(findAndModifyStatus) THEN findAndModifyStatus
    ELSE IF isEmpty(findAndModifyStatus.val) THEN StatusOK(EmptyObj)
    ELSE IF ~LocksType_parseBSON(findAndModifyStatus.val)
         THEN StatusErr("FailedToParse", "LocksType")
    ELSE StatusOK(findAndModifyStatus.val)

grabLockResult(resultStatus) ==
    LET cmdStatus == getStatusFromCommandResult(resultStatus.val)
    IN  IF ~isOK(resultStatus) THEN StatusErr(resultStatus.code, resultStatus.reason)
        ELSE IF ~isOK(cmdStatus) THEN cmdStatus
        ELSE parseNewDoc(extractFindAndModifyNewObj(resultStatus.val))

overtakeLockResult(resultStatus) ==
    IF ~isOK(resultStatus) THEN StatusErr(resultStatus.code, resultStatus.reason)
    ELSE parseNewDoc(extractFindAndModifyNewObj(resultStatus.val))

unlockResult(resultStatus) ==
    LET findAndModifyStatus == extractFindAndModifyNewObj(resultStatus.val)
    IN  IF ~isOK(resultStatus) THEN StatusErr(resultStatus.code, resultStatus.reason)
        ELSE IF isOK(findAndModifyStatus) THEN StatusOK(EmptyObj)
        ELSE findAndModifyStatus

\* ------------------------------------------------ the serverStatus response
\* A serverStatus response: the command status, the localTime element and
\* the $gleStats element with the electionId element inside it.
\*   localTime.t  : "absent" | "nondate" | "date" (v)
\*   gleStats.t   : "absent" | "nonobj" | "obj" (electionId)
\*   electionId.t : "absent" | "nonoid" | "oid" (v)
\* It has no writeConcernError and no value element.
TimeElem(t, v) == [t |-> t, v |-> v]

OidElem(t, v) == [t |-> t, v |-> v]

GleElem(t, electionId) == [t |-> t, electionId |-> electionId]

ServerStatusResponse(ok, code, errmsg, localTime, gleStats) ==
    [ok |-> ok, code |-> code, errmsg |-> errmsg, wce |-> WceAbsent,
     value |-> ValAbsent, localTime |-> localTime, gleStats |-> gleStats]

\* bsonExtractTypedField(responseObj, "localTime", Date, ...)
bsonExtractTypedField_localTime(r) ==
    CASE r.localTime.t = "absent" -> StatusErr("NoSuchKey", "missing localTime")
      [] r.localTime.t # "date" -> StatusErr("TypeMismatch", "localTime wrong type")
      [] OTHER -> StatusOK(EmptyObj)

\* bsonExtractTypedField(responseObj, kGLEStatsFieldName, Object, ...)
bsonExtractTypedField_gleStats(r) ==
    CASE r.gleStats.t = "absent" -> StatusErr("NoSuchKey", "missing $gleStats")
      [] r.gleStats.t # "obj" -> StatusErr("TypeMismatch", "$gleStats wrong type")
      [] OTHER -> StatusOK(EmptyObj)

\* bsonExtractOIDField(gleStatsElem.Obj(), kGLEStatsElectionIdFieldName, ...)
bsonExtractOIDField_electionId(gle) ==
    CASE gle.electionId.t = "absent" -> StatusErr("NoSuchKey", "missing electionId")
      [] gle.electionId.t # "oid" -> StatusErr("TypeMismatch", "electionId wrong type")
      [] OTHER -> StatusOK(gle.electionId.v)

\* OID(): the value of a default-constructed electionId.
DefaultOID == "OID()"

\* extractElectionId handing back a default OID when the response has none.
extractElectionId_defaultEpoch(r) ==
    LET gleStatus == bsonExtractTypedField_gleStats(r)
        electionIdStatus == bsonExtractOIDField_electionId(r.gleStats)
    IN  IF ~isOK(gleStatus) THEN StatusOK(DefaultOID)
        ELSE IF ~isOK(electionIdStatus) THEN StatusOK(DefaultOID)
        ELSE StatusOK(electionIdStatus.val)

\* extractElectionId
extractElectionId(r) ==
    LET gleStatus == bsonExtractTypedField_gleStats(r)
        electionIdStatus == bsonExtractOIDField_electionId(r.gleStats)
    IN  IF ~isOK(gleStatus) THEN StatusErr("UnsupportedFormat", gleStatus.reason)
        ELSE IF ~isOK(electionIdStatus)
             THEN StatusErr("UnsupportedFormat", electionIdStatus.reason)
        ELSE StatusOK(electionIdStatus.val)

\* DistLockCatalog::ServerInfo(time, electionId)
ServerInfo(time, electionId) == [serverTime |-> time, electionId |-> electionId]

\* What getServerInfo returns for what runCommand gave it.
getServerInfoResult(resultStatus) ==
    LET responseObj == resultStatus.val
        cmdStatus == getStatusFromCommandResult(responseObj)
        localTimeStatus == bsonExtractTypedField_localTime(responseObj)
        electionIdStatus == extractElectionId(responseObj)
    IN  IF ~isOK(resultStatus) THEN StatusErr(resultStatus.code, resultStatus.reason)
        ELSE IF ~isOK(cmdStatus) THEN cmdStatus
        ELSE IF ~isOK(localTimeStatus)
             THEN StatusErr("UnsupportedFormat", localTimeStatus.reason)
        ELSE IF ~isOK(electionIdStatus)
             THEN StatusErr("UnsupportedFormat", electionIdStatus.reason)
        ELSE StatusOK(ServerInfo(responseObj.localTime.v, electionIdStatus.val))

\* ------------------------------------------------------------ the gateway
WcErr(m) == [t |-> "wcerr", errmsg |-> m]

\* RemoteCommandRunner::runCommand against the config server: the possible
\* outcomes [coll, fault, matched, resultStatus] of running cmd on coll.
\*   none        the command executes, its response comes back
\*   wc          it executes, the write concern is not satisfied in time
\*   cmdfail     the server refuses the command (ok: 0), nothing executes
\*   exec        the runner fails before the command executes
\*   execApplied the runner fails after the command executed
runCommandOutcomes(coll, cmd) ==
    LET exec == findAndModify(coll, cmd)
        matched == \E d \in coll : Matches(d, cmd.query)
    IN  {[coll |-> o.coll, fault |-> "none", matched |-> matched,
          resultStatus |-> StatusOK(o.resp)]
           : o \in exec}
        \cup
        {[coll |-> o.coll, fault |-> "wc", matched |-> matched,
          resultStatus |-> StatusOK([o.resp EXCEPT !.wce = WcErr("wtimeout")])]
           : o \in {x \in exec : x.resp.ok}}
        \cup
        {[coll |-> coll, fault |-> "cmdfail", matched |-> FALSE,
          resultStatus |-> StatusOK(Response(FALSE, "NotMaster", "not master",
                                             WceAbsent, ValAbsent))]}
        \cup
        {[coll |-> coll, fault |-> "exec", matched |-> FALSE,
          resultStatus |-> StatusErr("HostUnreachable", "network")]}
        \cup
        {[coll |-> o.coll, fault |-> "execApplied", matched |-> matched,
          resultStatus |-> StatusErr("HostUnreachable", "network")]
           : o \in exec}

\* The electionId of the config server's primary.
ElectionId == "E1"

\* serverStatus executed on the config server at server time now: a
\* well-formed response; it reads and writes no collection.
serverStatus(now) ==
    ServerStatusResponse(TRUE, "OK", "", TimeElem("date", now),
                         GleElem("obj", OidElem("oid", ElectionId)))

\* runCommand of {serverStatus: 1} on collection coll, left as it is: the
\* response comes back, the server refuses the command, or the runner fails.
serverStatusOutcomes(coll, now) ==
    {[coll |-> coll, fault |-> "none", matched |-> FALSE,
      resultStatus |-> StatusOK(serverStatus(now))],
     [coll |-> coll, fault |-> "cmdfail", matched |-> FALSE,
      resultStatus |-> StatusOK(ServerStatusResponse(FALSE, "NotMaster", "not master",
                                    TimeElem("absent", 0),
                                    GleElem("absent", OidElem("absent", ""))))],
     [coll |-> coll, fault |-> "exec", matched |-> FALSE,
      resultStatus |-> StatusErr("HostUnreachable", "network")]}

\* ------------------------------------------------------------------- state
VARIABLES
    locks,   \* the lock-records collection (config.locks)
    pings,   \* the liveness-records collection (config.lockpings)
    pc,      \* per caller: "idle", "sent" (its command is in flight) or
             \* "aborted" (its process was terminated)
    req,     \* per caller: the operation and arguments of its latest call
    res,     \* per caller: what its latest call returned
    hist,    \* per caller: the record its latest call was about, as the
             \* call found it when issued (atCall), when executed (pre) and
             \* left it (post); whether its query matched a record and
             \* whether its command changed the collection; how the
             \* gateway behaved (fault) and what runCommand returned; how
             \* many times the call selected a host (nselect) and ran a
             \* command (nrun)
    ncalls,  \* calls issued so far; also the clock that stamps them
    minted,  \* session tokens minted so far (OID::gen: each one is fresh)
    nfaults  \* gateway faults so far

vars == <<locks, pings, pc, req, res, hist, ncalls, minted, nfaults>>

NoReq == [op |-> "none", lockID |-> 0, ts |-> 0, cur |-> 0, when |-> 0]

NoRes == [code |-> "none", reason |-> "", val |-> EmptyObj]

NoHist == [atCall |-> {}, pre |-> {}, post |-> {}, matched |-> FALSE,
           changed |-> FALSE, fault |-> "none", resultStatus |-> NoRes,
           nselect |-> 0, nrun |-> 0]

\* The caller's identity stands for the who and processId arguments.
WhoOf(c) == c

ProcessOf(c) == c

Why == "why"

\* BSON("serverStatus" << 1) on the admin database.
serverStatusCommand == [NoCmd EXCEPT !.ns = "admin"]

\* The command a call issues.
CommandOf(c, r) ==
    CASE r.op = "ping" -> pingRequest(ProcessOf(c), r.when)
      [] r.op = "grabLock" ->
            grabLockRequest(r.lockID, r.ts, WhoOf(c), ProcessOf(c), r.when, Why)
      [] r.op = "overtakeLock" ->
            overtakeLockRequest(r.lockID, r.ts, r.cur, WhoOf(c), ProcessOf(c),
                                r.when, Why)
      [] r.op = "unlock" -> unlockRequest(r.ts)
      [] r.op = "getServerInfo" -> serverStatusCommand
      [] OTHER -> NoCmd

ResultOf(op, resultStatus) ==
    CASE op = "ping" -> pingResult(resultStatus)
      [] op = "grabLock" -> grabLockResult(resultStatus)
      [] op = "overtakeLock" -> overtakeLockResult(resultStatus)
      [] op = "unlock" -> unlockResult(resultStatus)
      [] op = "getServerInfo" -> getServerInfoResult(resultStatus)
      [] OTHER -> NoRes

\* The records of collection coll a call is about: those keyed by its
\* lockID (grabLock, overtakeLock), holding its token (unlock) or keyed by
\* its process (ping).
About(c, r, coll) ==
    CASE r.op = "ping" -> {d \in coll : d.process = ProcessOf(c)}
      [] r.op = "unlock" -> {d \in coll : d.ts = r.ts}
      [] r.op = "getServerInfo" -> {}
      [] OTHER -> {d \in coll : d.name = r.lockID}

Init ==
    /\ locks = {}
    /\ pings = {}
    /\ pc = [c \in Clients |-> "idle"]
    /\ req = [c \in Clients |-> NoReq]
    /\ res = [c \in Clients |-> NoRes]
    /\ hist = [c \in Clients |-> NoHist]
    /\ ncalls = 0
    /\ minted = 0
    /\ nfaults = 0

\* A findHost that selects again when the selection fails, and goes on.
findHost_retry(c, r) ==
    /\ pc[c] = "idle"
    /\ ncalls < MaxCalls
    /\ ncalls' = ncalls + 1
    /\ req' = [req EXCEPT ![c] = r]
    /\ LET coll == IF r.op = "ping" THEN pings ELSE locks
           about == About(c, r, coll)
       IN  \/ /\ nfaults < MaxFaults
              /\ nfaults' = nfaults + 1
              /\ pc' = [pc EXCEPT ![c] = "sent"]
              /\ res' = [res EXCEPT ![c] = NoRes]
              /\ hist' = [hist EXCEPT ![c] =
                            [NoHist EXCEPT !.atCall = about, !.fault = "pending",
                                           !.nselect = 1 + 1]]
           \/ /\ pc' = [pc EXCEPT ![c] = "sent"]
              /\ res' = [res EXCEPT ![c] = NoRes]
              /\ hist' = [hist EXCEPT ![c] =
                            [NoHist EXCEPT !.atCall = about, !.fault = "pending",
                                           !.nselect = 1]]
              /\ UNCHANGED nfaults
    /\ UNCHANGED <<locks, pings>>

\* The head of every operation: _targeter->findHost(kReadPref).  When it
\* fails the call returns its status at once and nothing is sent; otherwise
\* the command is built and handed to the runner.
findHost(c, r) ==
    /\ pc[c] = "idle"
    /\ ncalls < MaxCalls
    /\ ncalls' = ncalls + 1
    /\ req' = [req EXCEPT ![c] = r]
    /\ LET coll == IF r.op = "ping" THEN pings ELSE locks
           about == About(c, r, coll)
       IN  \/ /\ nfaults < MaxFaults
              /\ nfaults' = nfaults + 1
              /\ res' = [res EXCEPT ![c] = StatusErr("HostNotFound", "no primary")]
              /\ hist' = [hist EXCEPT ![c] =
                            [NoHist EXCEPT !.atCall = about, !.pre = about,
                                           !.post = about, !.fault = "target",
                                           !.nselect = 1]]
              /\ UNCHANGED pc
           \/ /\ pc' = [pc EXCEPT ![c] = "sent"]
              /\ res' = [res EXCEPT ![c] = NoRes]
              /\ hist' = [hist EXCEPT ![c] =
                            [NoHist EXCEPT !.atCall = about, !.fault = "pending",
                                           !.nselect = 1]]
              /\ UNCHANGED nfaults
    /\ UNCHANGED <<locks, pings>>

\* The time argument of a call: the clock when it is issued.
Now == ncalls + 1

\* The tokens a caller passes as the holder it expects or releases: the
\* ones minted so far and, up to n, one that no acquisition has used yet.
Known(n) == {t \in Tokens : t <= n}

ping(c) ==
    /\ findHost(c, [NoReq EXCEPT !.op = "ping", !.when = Now])
    /\ UNCHANGED minted

grabLock(c) ==
    /\ minted < NumTokens
    /\ minted' = minted + 1
    /\ \E lockID \in Names :
         findHost(c, [op |-> "grabLock", lockID |-> lockID, ts |-> minted + 1,
                      cur |-> 0, when |-> Now])

overtakeLock(c) ==
    /\ minted < NumTokens
    /\ minted' = minted + 1
    /\ \E lockID \in Names, currentHolderTS \in Known(minted + 2) \ {minted + 1} :
         findHost(c, [op |-> "overtakeLock", lockID |-> lockID,
                      ts |-> minted + 1, cur |-> currentHolderTS, when |-> Now])

unlock(c) ==
    /\ \E lockSessionID \in Known(minted + 1) :
         findHost(c, [NoReq EXCEPT !.op = "unlock", !.ts = lockSessionID])
    /\ UNCHANGED minted

getServerInfo(c) ==
    /\ findHost(c, [NoReq EXCEPT !.op = "getServerInfo"])
    /\ UNCHANGED minted

\* invariant(expression): the process is terminated when it does not hold.
invariant(expression) == IF expression THEN "returns" ELSE "aborts"

\* An unimplemented operation that skips invariant(false) and returns the
\* InternalError status written behind it.
notYetImplemented_softError(c, r) ==
    /\ pc[c] = "idle"
    /\ req' = [req EXCEPT ![c] = r]
    /\ hist' = [hist EXCEPT ![c] = NoHist]
    /\ res' = [res EXCEPT ![c] = StatusErr("InternalError", "not yet implemented")]
    /\ UNCHANGED <<locks, pings, pc, ncalls, minted, nfaults>>

\* The body shared by the two operations that are not implemented:
\* invariant(false), then the return statement behind it.  Nothing is sent.
notYetImplemented(c, r) ==
    /\ pc[c] = "idle"
    /\ req' = [req EXCEPT ![c] = r]
    /\ hist' = [hist EXCEPT ![c] = NoHist]
    /\ IF invariant(FALSE) = "aborts"
       THEN /\ pc' = [pc EXCEPT ![c] = "aborted"]
            /\ res' = [res EXCEPT ![c] = NoRes]
       ELSE /\ pc' = pc
            /\ res' = [res EXCEPT ![c] =
                          StatusErr("InternalError", "not yet implemented")]
    /\ UNCHANGED <<locks, pings, ncalls, minted, nfaults>>

getPing(c) ==
    \E processID \in Clients :
        notYetImplemented(c, [NoReq EXCEPT !.op = "getPing"])

getLockByTS(c) ==
    \E ts \in Known(minted + 1) :
        notYetImplemented(c, [NoReq EXCEPT !.op = "getLockByTS", !.ts = ts])

\* _cmdRunner->runCommand(...) and the rest of the operation: the store
\* executes the command atomically and the caller maps the response.
runCommand(c) ==
    /\ pc[c] = "sent"
    /\ LET cmd == CommandOf(c, req[c])
           coll == IF cmd.ns = "locks" THEN locks ELSE pings
           outcomes == IF cmd.ns = "admin"
                       THEN serverStatusOutcomes(coll, ncalls)
                       ELSE runCommandOutcomes(coll, cmd)
       IN  \E o \in outcomes :
             /\ o.fault = "none" \/ nfaults < MaxFaults
             /\ nfaults' = IF o.fault = "none" THEN nfaults ELSE nfaults + 1
             /\ locks' = IF cmd.ns = "locks" THEN o.coll ELSE locks
             /\ pings' = IF cmd.ns = "locks" THEN pings ELSE o.coll
             /\ res' = [res EXCEPT ![c] = ResultOf(req[c].op, o.resultStatus)]
             /\ hist' = [hist EXCEPT ![c] =
                           [@ EXCEPT !.pre = About(c, req[c], coll),
                                     !.post = About(c, req[c], o.coll),
                                     !.matched = o.matched,
                                     !.changed = (o.coll # coll),
                                     !.fault = o.fault,
                                     !.resultStatus = o.resultStatus,
                                     !.nrun = @ + 1]]
    /\ pc' = [pc EXCEPT ![c] = "idle"]
    /\ UNCHANGED <<req, ncalls, minted>>

Next ==
    \E c \in Clients :
        \/ ping(c)
        \/ grabLock(c)
        \/ overtakeLock(c)
        \/ unlock(c)
        \/ getServerInfo(c)
        \/ getPing(c)
        \/ getLockByTS(c)
        \/ runCommand(c)

Spec == Init /\ [][Next]_vars

\* --------------------------------------------- the response mapping alone
\* The response documents a command runner can hand back: any command
\* status, any shape of the writeConcernError and value elements.
FailCodes == {"NotMaster", "DuplicateKey"}

WceShapes ==
    {WceAbsent, [t |-> "nonobj", errmsg |-> ""], [t |-> "badobj", errmsg |-> ""],
     WcErr("wtimeout")}

SampleLockDoc ==
    [name |-> 1, ts |-> 1, state |-> LOCKED, who |-> 1, process |-> 1,
     when |-> 1, why |-> Why]

ValueShapes ==
    {ValAbsent, ValNull, [t |-> "scalar", doc |-> EmptyObj], ValObj(EmptyObj),
     ValObj([name |-> 1]), ValObj(SampleLockDoc)}

Responses ==
    {Response(TRUE, "OK", "", w, v) : w \in WceShapes, v \in ValueShapes}
    \cup
    {Response(FALSE, e, "failed", w, v) :
        e \in FailCodes, w \in WceShapes, v \in ValueShapes}

SampleReqs ==
    {[NoReq EXCEPT !.op = "ping", !.when = 1],
     [op |-> "grabLock", lockID |-> 1, ts |-> 1, cur |-> 0, when |-> 1],
     [op |-> "overtakeLock", lockID |-> 1, ts |-> 1, cur |-> 2, when |-> 1],
     [NoReq EXCEPT !.op = "unlock", !.ts = 1],
     [NoReq EXCEPT !.op = "getServerInfo"]}

\* The serverStatus responses: any command status, any shape of the
\* localTime, $gleStats and electionId elements.
TimeShapes == {TimeElem("absent", 0), TimeElem("nondate", 0), TimeElem("date", 1)}

GleShapes ==
    {GleElem("absent", OidElem("absent", "")), GleElem("nonobj", OidElem("absent", "")),
     GleElem("obj", OidElem("absent", "")), GleElem("obj", OidElem("nonoid", "")),
     GleElem("obj", OidElem("oid", "E1"))}

ServerStatusResponses ==
    {ServerStatusResponse(TRUE, "OK", "", t, g) : t \in TimeShapes, g \in GleShapes}
    \cup
    {ServerStatusResponse(FALSE, e, "failed", t, g) :
        e \in FailCodes, t \in TimeShapes, g \in GleShapes}

\* The response documents that can come back to request r.
ResponsesTo(r) ==
    IF r.op = "getServerInfo" THEN ServerStatusResponses ELSE Responses

\* One caller has issued an operation and runCommand has returned to it:
\* a runner error or any response document.
InitParse ==
    /\ locks = {}
    /\ pings = {}
    /\ ncalls = 0
    /\ minted = 0
    /\ nfaults = 0
    /\ res = [c \in Clients |-> NoRes]
    /\ \E c0 \in Clients :
         /\ pc = [c \in Clients |-> IF c = c0 THEN "sent" ELSE "idle"]
         /\ \E r \in SampleReqs :
              /\ req = [c \in Clients |-> IF c = c0 THEN r ELSE NoReq]
              /\ \E rs \in {StatusOK(d) : d \in ResponsesTo(r)}
                            \cup {StatusErr("HostUnreachable", "network")} :
                   hist = [c \in Clients |->
                             IF c = c0 THEN [NoHist EXCEPT !.resultStatus = rs]
                             ELSE NoHist]

\* The part of every operation after runCommand: the result the caller gets
\* for what the runner returned.
mapResponse(c) ==
    /\ pc[c] = "sent"
    /\ res' = [res EXCEPT ![c] = ResultOf(req[c].op, hist[c].resultStatus)]
    /\ pc' = [pc EXCEPT ![c] = "idle"]
    /\ UNCHANGED <<locks, pings, req, hist, ncalls, minted, nfaults>>

NextParse == \E c \in Clients : mapResponse(c)

SpecParse == InitParse /\ [][NextParse]_vars

\* ------------------------------------------------------- reading a call
\* c's latest call was op, has returned, and the gateway worked throughout.
Done(c, op) ==
    /\ pc[c] = "idle"
    /\ req[c].op = op
    /\ hist[c].fault = "none"

\* The call returned a non-empty lock record.
Acquired(c) == isOK(res[c]) /\ ~isEmpty(res[c].val)

\* The call returned the empty record LocksType(): "not acquired".
NotAcquired(c) == isOK(res[c]) /\ isEmpty(res[c].val)

\* The call returned an error value.
Failed(c) == res[c].code \notin {"OK", "none"}

\* No record in S is LOCKED: the name is absent or UNLOCKED.
Free(S) == \A d \in S : d.state = UNLOCKED

\* The record a grabLock / overtakeLock of c installs.
Installed(c, d) ==
    /\ d.name = req[c].lockID
    /\ d.ts = req[c].ts
    /\ d.state = LOCKED

\* ------------------------------------------------------------------ claims
\* Two calls of c1 and c2 on the same lockID raced: both were issued on the
\* same state of the record, c1's command ran first, on that state, and
\* c2's command ran next, on the record as c1's left it.
Raced(c1, c2) ==
    /\ c1 # c2
    /\ req[c1].lockID = req[c2].lockID
    /\ hist[c1].atCall = hist[c2].atCall
    /\ hist[c1].pre = hist[c1].atCall
    /\ hist[c2].pre = hist[c1].post

C2_GrabAbsentCreates ==
    \A c \in Clients :
        (Done(c, "grabLock") /\ hist[c].pre = {})
        => /\ Acquired(c)
           /\ res[c].val.ts = req[c].ts
           /\ res[c].val.state = LOCKED
           /\ hist[c].post = {res[c].val}
           /\ Installed(c, res[c].val)

C2_Witness ==
    \E c \in Clients :
        /\ Done(c, "grabLock")
        /\ hist[c].pre = {}
        /\ Acquired(c)
        /\ res[c].val \in locks

C4_OvertakeFencing ==
    \A c \in Clients :
        \A d \in hist[c].pre :
            (Done(c, "overtakeLock") /\ d.state = LOCKED)
            => IF d.ts = req[c].cur
               THEN /\ Acquired(c)
                    /\ Installed(c, res[c].val)
                    /\ hist[c].post = {res[c].val}
               ELSE /\ NotAcquired(c)
                    /\ hist[c].post = hist[c].pre

\* One overtakeLock took a LOCKED record from the holder it expected and
\* another, expecting a holder that no longer holds it, got the empty record.
C4_Witness ==
    \E c1, c2 \in Clients :
        /\ Done(c1, "overtakeLock") /\ Done(c2, "overtakeLock")
        /\ \E d \in hist[c1].pre : d.state = LOCKED /\ d.ts = req[c1].cur
        /\ Acquired(c1)
        /\ \E d \in hist[c2].pre : d.state = LOCKED /\ d.ts # req[c2].cur
        /\ NotAcquired(c2)

\* c's grabLock / overtakeLock applies to a name whose records are S: its
\* query matches a record of S, or it upserts and S is empty.
WouldMatch(c, S) ==
    \/ \E d \in S : Matches(d, CommandOf(c, req[c]).query)
    \/ S = {} /\ CommandOf(c, req[c]).upsert

UnlockedTwice(c1, c2) ==
    /\ c1 # c2
    /\ Done(c1, "unlock") /\ Done(c2, "unlock")
    /\ req[c1].ts = req[c2].ts
    /\ \E d \in hist[c1].pre : d.state = LOCKED
    /\ hist[c2].atCall = hist[c1].post
    /\ hist[c2].pre = hist[c1].post

\* C6 as stated: unlock(T) followed by unlock(T) both succeed, the second
\* matches no record, and the store after it is the store after the first.
C6_SecondUnlockMatchesNothing ==
    \A c1, c2 \in Clients :
        UnlockedTwice(c1, c2)
        => /\ isOK(res[c1]) /\ isOK(res[c2])
           /\ ~hist[c2].matched
           /\ ~hist[c2].changed

\* C6 as amended: unlock(T) followed by unlock(T) both succeed and the
\* second changes nothing in the store; it still matches the released
\* record, which keeps lockSessionID = T, and sets state UNLOCKED again.
C6_UnlockIdempotent ==
    \A c1, c2 \in Clients :
        UnlockedTwice(c1, c2)
        => /\ isOK(res[c1]) /\ isOK(res[c2])
           /\ ~hist[c2].changed
           /\ hist[c2].post = hist[c1].post
           /\ hist[c2].matched
           /\ \A d \in hist[c2].post : d.ts = req[c2].ts /\ d.state = UNLOCKED

C6_Witness ==
    \E c1, c2 \in Clients :
        /\ UnlockedTwice(c1, c2)
        /\ isOK(res[c2])
        /\ hist[c1].changed

\* C7: a completed unlock(T) leaves every record whose lockSessionID is not
\* T as it was and creates none; when the gateway works it returns success
\* and the record holding T, if any, has state UNLOCKED and is otherwise
\* as before.
C7_UnlockOnlyOwnRecord ==
    [][\A c \in Clients :
         (pc[c] = "sent" /\ pc'[c] = "idle" /\ req[c].op = "unlock")
         => /\ \A d \in locks : d.ts # req[c].ts => d \in locks'
            /\ \A d \in locks' \ locks :
                 \E e \in locks \ locks' :
                    e.ts = req[c].ts /\ d = [e EXCEPT !.state = UNLOCKED]
            /\ Cardinality(locks') = Cardinality(locks)
            /\ hist'[c].fault = "none"
               => /\ isOK(res'[c])
                  /\ \A e \in locks :
                       e.ts = req[c].ts => [e EXCEPT !.state = UNLOCKED] \in locks'
      ]_vars

\* unlock(T1) after an overtakeLock replaced T1: it matches nothing, returns
\* success, and the record the overtaker installed is still in the store.
C7_Witness ==
    \E c, o \in Clients :
        /\ Done(c, "unlock")
        /\ ~hist[c].matched /\ ~hist[c].changed
        /\ isOK(res[c])
        /\ Done(o, "overtakeLock")
        /\ req[o].cur = req[c].ts
        /\ Acquired(o)
        /\ res[o].val \in locks
        /\ res[o].val.state = LOCKED

\* C8: the lock collection never holds two records with the same name.
C8_OneRecordPerName ==
    \A d1, d2 \in locks : d1.name = d2.name => d1 = d2

\* A grabLock ran its upsert against a name whose record was LOCKED, and the
\* name still has one record.
C8_Witness ==
    \E c \in Clients :
        /\ Done(c, "grabLock")
        /\ \E d \in hist[c].pre : d.state = LOCKED
        /\ Cardinality({d \in locks : d.name = req[c].lockID}) = 1

\* A record carries a session token: one minted for an acquisition.
HasToken(d) == d.ts \in 1..minted

\* C9 as stated: a record is LOCKED if and only if it carries a session
\* token; it never carries one while UNLOCKED.
C9_LockedIffToken ==
    \A d \in locks : (d.state = LOCKED) <=> HasToken(d)

\* C9 as amended: every record carries the session token of the call that
\* last acquired it, so a LOCKED record is never without a token; an
\* UNLOCKED record keeps the token of its last holder.
C9_LockedHasToken ==
    \A d \in locks :
        /\ d.state \in {LOCKED, UNLOCKED}
        /\ HasToken(d)

C9_Witness ==
    /\ \E d \in locks : d.state = UNLOCKED /\ HasToken(d)
    /\ \E d \in locks : d.state = LOCKED /\ HasToken(d)

\* c's call has returned and runCommand had handed it a response document
\* whose command status is failure.
GotCommandFailure(c) ==
    /\ pc[c] = "idle"
    /\ req[c].op # "none"
    /\ isOK(hist[c].resultStatus)
    /\ ~hist[c].resultStatus.val.ok

\* C10: a response whose command status is failure makes the parser, and
\* with it ping, grabLock, overtakeLock and unlock, return that failure as
\* it is, whatever writeConcernError and value the response carries.
C10_CommandFailureVerbatim ==
    \A c \in Clients :
        GotCommandFailure(c)
        => LET r == hist[c].resultStatus.val
           IN  /\ extractFindAndModifyNewObj(r) = StatusErr(r.code, r.errmsg)
               /\ res[c] = StatusErr(r.code, r.errmsg)

\* A failed command whose response also carries a well-formed
\* writeConcernError and a lock document.
C10_Witness ==
    \E c \in Clients :
        /\ GotCommandFailure(c)
        /\ hist[c].resultStatus.val.wce.t = "wcerr"
        /\ hist[c].resultStatus.val.value = ValObj(SampleLockDoc)
        /\ res[c].code = hist[c].resultStatus.val.code

\* c's call has returned and runCommand had handed it a response document
\* whose command status is success.
GotResponse(c) ==
    /\ pc[c] = "idle"
    /\ req[c].op # "none"
    /\ isOK(hist[c].resultStatus)
    /\ hist[c].resultStatus.val.ok

\* C11: a response whose command status is success and which carries a
\* well-formed writeConcernError makes the parser, and with it every
\* operation, return WriteConcernFailed with the embedded message, whether
\* or not the response also carries a value document.
C11_WriteConcernErrorWins ==
    \A c \in Clients :
        (GotResponse(c) /\ hist[c].resultStatus.val.wce.t = "wcerr")
        => LET r == hist[c].resultStatus.val
           IN  /\ extractFindAndModifyNewObj(r)
                    = StatusErr("WriteConcernFailed", r.wce.errmsg)
               /\ res[c] = StatusErr("WriteConcernFailed", r.wce.errmsg)

\* A successful response that carries both a well-formed writeConcernError
\* and a lock document came back to a grabLock.
C11_Witness ==
    \E c \in Clients :
        /\ GotResponse(c)
        /\ req[c].op = "grabLock"
        /\ hist[c].resultStatus.val.wce = WcErr("wtimeout")
        /\ hist[c].resultStatus.val.value = ValObj(SampleLockDoc)
        /\ res[c].code = "WriteConcernFailed"

\* c's getServerInfo has returned and runCommand had handed it a response.
GotServerStatus(c) ==
    /\ pc[c] = "idle"
    /\ req[c].op = "getServerInfo"
    /\ isOK(hist[c].resultStatus)

\* The response has a date-typed localTime and, inside an object-typed
\* $gleStats, an OID-typed electionId.
WellFormedStatus(r) ==
    /\ r.localTime.t = "date"
    /\ r.gleStats.t = "obj"
    /\ r.gleStats.electionId.t = "oid"

\* C12: getServerInfo returns UnsupportedFormat, never a snapshot, when the
\* successful serverStatus response lacks $gleStats, lacks the electionId
\* inside it, has either with the wrong type, or lacks a date-typed
\* localTime; a snapshot it returns carries the response's own localTime and
\* electionId; a failed command status is returned before any of this.
C12_ServerInfoMalformed ==
    \A c \in Clients :
        GotServerStatus(c)
        => LET r == hist[c].resultStatus.val
           IN  /\ ~r.ok => res[c] = StatusErr(r.code, r.errmsg)
               /\ (r.ok /\ ~WellFormedStatus(r))
                    => /\ res[c].code = "UnsupportedFormat"
                       /\ DOMAIN res[c].val = {}
               /\ isOK(res[c])
                    => /\ r.ok /\ WellFormedStatus(r)
                       /\ res[c].val = ServerInfo(r.localTime.v,
                                                  r.gleStats.electionId.v)

\* A successful response with a date-typed localTime and a $gleStats object
\* that has no electionId came back and was refused.
C12_Witness ==
    \E c \in Clients :
        /\ GotServerStatus(c)
        /\ hist[c].resultStatus.val.ok
        /\ hist[c].resultStatus.val.localTime.t = "date"
        /\ hist[c].resultStatus.val.gleStats = GleElem("obj", OidElem("absent", ""))
        /\ res[c].code = "UnsupportedFormat"

\* The operations that are declared but not implemented.
Stubs == {"getPing", "getLockByTS"}

\* C13: every call of getPing or getLockByTS terminates the calling process
\* at the call: it returns no record and no error value, selects no host,
\* sends no command and leaves both collections as they were; a terminated
\* process never returns anything afterwards.
C13_StubsAbort ==
    [][\A c \in Clients :
         /\ (req'[c].op \in Stubs /\ pc[c] # "aborted")
            => /\ pc'[c] = "aborted"
               /\ res'[c] = NoRes
               /\ locks' = locks /\ pings' = pings
               /\ ncalls' = ncalls /\ nfaults' = nfaults
         /\ pc[c] = "aborted"
            => /\ pc'[c] = "aborted"
               /\ res'[c] = NoRes
               /\ req'[c] = req[c]
      ]_vars

\* getLockByTS was called with the token of a record that is in the store,
\* and getPing by a process whose liveness record is in the store.
C13_Witness ==
    \E c1, c2 \in Clients :
        /\ pc[c1] = "aborted" /\ req[c1].op = "getLockByTS"
        /\ \E d \in locks : d.ts = req[c1].ts
        /\ pc[c2] = "aborted" /\ req[c2].op = "getPing"
        /\ \E d \in pings : d.process = ProcessOf(c2)

\* The operations that go to the config server.
Implemented == {"ping", "grabLock", "overtakeLock", "unlock", "getServerInfo"}

\* C14: a call of ping, grabLock, overtakeLock, unlock or getServerInfo
\* selects a host once and runs at most one command.  When the selection
\* fails the call returns that status and runs nothing; when the runner
\* fails the call returns the runner's status; the collections change only
\* in the step in which a call's one command runs.
C14_OneSelectionOneCommand ==
    [][/\ \A c \in Clients :
            /\ (pc[c] # "sent" /\ pc'[c] = "sent")
               => /\ req'[c].op \in Implemented
                  /\ hist'[c].nselect = 1
                  /\ hist'[c].nrun = 0
            /\ (pc[c] = "sent" /\ pc'[c] # "sent")
               => /\ pc'[c] = "idle"
                  /\ hist'[c].nselect = 1
                  /\ hist'[c].nrun = 1
                  /\ ~isOK(hist'[c].resultStatus)
                       => res'[c] = StatusErr(hist'[c].resultStatus.code,
                                              hist'[c].resultStatus.reason)
            /\ (pc'[c] = "idle" /\ hist'[c].fault = "target")
               => /\ req'[c].op \in Implemented
                  /\ hist'[c].nselect = 1
                  /\ hist'[c].nrun = 0
                  /\ res'[c].code = "HostNotFound"
       /\ (locks' # locks \/ pings' # pings)
            => \E c \in Clients : pc[c] = "sent" /\ pc'[c] = "idle"
      ]_vars

\* One caller's command failed in the runner and the caller got that error;
\* another caller's getServerInfo selected a host once, ran its one command
\* and returned a snapshot.
C14_Witness ==
    \E c1, c2 \in Clients :
        /\ pc[c1] = "idle" /\ hist[c1].fault = "exec"
        /\ res[c1].code = "HostUnreachable"
        /\ hist[c1].nrun = 1
        /\ pc[c2] = "idle" /\ req[c2].op = "getServerInfo"
        /\ isOK(res[c2])
        /\ hist[c2].nselect = 1 /\ hist[c2].nrun = 1

\* The liveness records of process p in collection coll.
PingsOf(coll, p) == {d \in coll : d.process = p}

\* C15: a ping(processID, t) whose command the gateway carried through
\* returns success whether or not processID had a liveness record; after it
\* processID has exactly one liveness record, with ping = t; the lock
\* records and the liveness records of other processes are as before.
C15_PingUpserts ==
    [][\A c \in Clients :
         ( /\ pc[c] = "sent" /\ pc'[c] = "idle"
           /\ req[c].op = "ping"
           /\ hist'[c].fault = "none" )
         => /\ isOK(res'[c])
            /\ PingsOf(pings', ProcessOf(c))
                 = {[process |-> ProcessOf(c), ping |-> req[c].when]}
            /\ locks' = locks
            /\ pings' \ PingsOf(pings', ProcessOf(c))
                 = pings \ PingsOf(pings, ProcessOf(c))
      ]_vars

\* A ping replaced the ping time of a liveness record that existed, with
\* another process's liveness record in the collection.
C15_Witness ==
    \E c \in Clients :
        /\ Done(c, "ping")
        /\ isOK(res[c])
        /\ hist[c].pre # {}
        /\ hist[c].post # hist[c].pre
        /\ hist[c].post = PingsOf(pings, ProcessOf(c))
        /\ pings # hist[c].post

\* c's findAndModify call has returned and runCommand had handed it a
\* response with success status and no writeConcernError element.
GotPlainResponse(c) ==
    /\ GotResponse(c)
    /\ req[c].op # "getServerInfo"
    /\ hist[c].resultStatus.val.wce.t = "absent"

\* C16: for a response with success status and no writeConcernError element
\* the parser's result depends on the value element alone: absent or null
\* gives the empty document and no error, a document gives that document,
\* anything else gives UnsupportedFormat; ping and unlock return the
\* parser's status.
C16_ValueFieldAlone ==
    \A c \in Clients :
        GotPlainResponse(c)
        => LET r == hist[c].resultStatus.val
               parsed == extractFindAndModifyNewObj(r)
           IN  /\ r.value.t \in {"absent", "null"} => parsed = StatusOK(EmptyObj)
               /\ r.value.t = "obj" => parsed = StatusOK(r.value.doc)
               /\ r.value.t \notin {"absent", "null", "obj"}
                    => /\ parsed.code = "UnsupportedFormat"
                       /\ isEmpty(parsed.val)
               /\ req[c].op \in {"ping", "unlock"} => res[c].code = parsed.code
               /\ req[c].op \in {"grabLock", "overtakeLock"}
                    => res[c] = parseNewDoc(parsed)

\* A successful response without writeConcernError whose value is neither
\* null nor a document came back to an overtakeLock and was refused.
C16_Witness ==
    \E c \in Clients :
        /\ GotPlainResponse(c)
        /\ req[c].op = "overtakeLock"
        /\ hist[c].resultStatus.val.value.t = "scalar"
        /\ res[c].code = "UnsupportedFormat"

\* C17: for a response with success status whose writeConcernError element
\* is present but is not a well-formed write concern error (not an Object,
\* or an Object that WCErrorDetail cannot parse) the parser, and with it the
\* operation, returns UnsupportedFormat: never a document, the empty
\* document or another error code.
C17_MalformedWceUnsupportedFormat ==
    \A c \in Clients :
        ( /\ GotResponse(c)
          /\ req[c].op # "getServerInfo"
          /\ hist[c].resultStatus.val.wce.t \in {"nonobj", "badobj"} )
        => /\ extractFindAndModifyNewObj(hist[c].resultStatus.val).code
                 = "UnsupportedFormat"
           /\ res[c].code = "UnsupportedFormat"

\* The records of collection coll named n.
Named(coll, n) == {d \in coll : d.name = n}

\* C18: overtakeLock creates no record: on a lockID that has no record the
\* collection is left as it was, whatever holder the call expects, and the
\* call returns the empty record; on a record that is UNLOCKED it installs
\* its token and returns the record, whatever holder the call expects.
C18_OvertakeNeverCreates ==
    [][\A c \in Clients :
         (pc[c] = "sent" /\ pc'[c] = "idle" /\ req[c].op = "overtakeLock")
         => /\ Named(locks, req[c].lockID) = {}
               => /\ locks' = locks
                  /\ hist'[c].fault = "none"
                       => isOK(res'[c]) /\ isEmpty(res'[c].val)
            /\ ( /\ \E d \in Named(locks, req[c].lockID) : d.state = UNLOCKED
                 /\ hist'[c].fault = "none" )
               => /\ isOK(res'[c]) /\ ~isEmpty(res'[c].val)
                  /\ Installed(c, res'[c].val)
                  /\ Named(locks', req[c].lockID) = {res'[c].val}
      ]_vars

\* An overtakeLock ran on a lockID that had no record, while the collection
\* held another name's record: it returned the empty record and the lockID
\* still has no record.
C18_Witness ==
    \E c \in Clients :
        /\ Done(c, "overtakeLock")
        /\ hist[c].pre = {}
        /\ NotAcquired(c)
        /\ Named(locks, req[c].lockID) = {}
        /\ locks # {}

\* C19: when the store applies the update of a grabLock or overtakeLock
\* and the response reports a write concern error, the call returns
\* WriteConcernFailed, which is neither the store's command failure nor
\* the empty record, and no lock record; the record is in the collection,
\* LOCKED with the caller's token, where the commands of every client find
\* it.
C19_WriteConcernAfterApply ==
    [][\A c \in Clients :
         ( /\ pc[c] = "sent" /\ pc'[c] = "idle"
           /\ req[c].op \in {"grabLock", "overtakeLock"}
           /\ hist'[c].fault = "wc"
           /\ WouldMatch(c, Named(locks, req[c].lockID)) )
         => /\ res'[c].code = "WriteConcernFailed"
            /\ res'[c].code \notin FailCodes \cup {"OK"}
            /\ isEmpty(res'[c].val)
            /\ \E d \in locks' : Installed(c, d)
            /\ hist'[c].post = Named(locks', req[c].lockID)
      ]_vars

\* A grabLock got WriteConcernFailed, and another client's overtakeLock
\* that expected the token of that grabLock then found the record and took
\* it over.
C19_Witness ==
    \E c1, c2 \in Clients :
        /\ pc[c1] = "idle" /\ req[c1].op = "grabLock"
        /\ hist[c1].fault = "wc"
        /\ res[c1].code = "WriteConcernFailed"
        /\ Done(c2, "overtakeLock")
        /\ req[c2].cur = req[c1].ts
        /\ hist[c2].pre = hist[c1].post
        /\ \E d \in hist[c2].pre : d.state = LOCKED /\ d.ts = req[c1].ts
        /\ Acquired(c2)

\* C20: when a grabLock or overtakeLock called with token T returns a
\* non-empty record, its update was applied by the command that just ran,
\* the record returned is the lockID's one record in the collection, and
\* that record is LOCKED with lockSessionID = T; so no call returns a
\* non-empty record while the lockID's record carries another token.
C20_ReturnedRecordIsInstalled ==
    [][\A c \in Clients :
         ( /\ pc[c] = "sent" /\ pc'[c] = "idle"
           /\ req[c].op \in {"grabLock", "overtakeLock"}
           /\ isOK(res'[c]) /\ ~isEmpty(res'[c].val) )
         => /\ WouldMatch(c, Named(locks, req[c].lockID))
            /\ locks' # locks
            /\ Named(locks', req[c].lockID) = {res'[c].val}
            /\ Installed(c, res'[c].val)
            /\ \A d \in Named(locks', req[c].lockID) :
                 d.state = LOCKED /\ d.ts = req[c].ts
      ]_vars

\* A grabLock took a record that an earlier holder had released: the record
\* it returned carries its own token, not the earlier holder's, and is the
\* one in the collection.
C20_Witness ==
    \E c \in Clients :
        /\ Done(c, "grabLock")
        /\ \E d \in hist[c].pre : d.state = UNLOCKED /\ d.ts # req[c].ts
        /\ Acquired(c)
        /\ res[c].val.ts = req[c].ts
        /\ res[c].val \in locks

\* C21: the command of an unlock(T) changes only the state field of the
\* record it matches: the record keeps lockSessionID = T and its who,
\* process, when and why.  The lockSessionID of a record changes only in the
\* step in which the command of a grabLock or overtakeLock on its name
\* runs, and that step leaves the record LOCKED with the call's token.
C21_UnlockSetsStateOnly ==
    [][/\ \A c \in Clients :
            (pc[c] = "sent" /\ pc'[c] = "idle" /\ req[c].op = "unlock")
            => \A e \in locks :
                 \E d \in locks' :
                    /\ d.name = e.name
                    /\ d.ts = e.ts /\ d.who = e.who /\ d.process = e.process
                    /\ d.when = e.when /\ d.why = e.why
                    /\ e.ts # req[c].ts => d.state = e.state
                    /\ (e.ts = req[c].ts /\ hist'[c].matched) => d.state = UNLOCKED
       /\ \A e \in locks, d \in locks' :
            (d.name = e.name /\ d.ts # e.ts)
            => /\ d.state = LOCKED
               /\ \E c \in Clients :
                    /\ pc[c] = "sent" /\ pc'[c] = "idle"
                    /\ req[c].op \in {"grabLock", "overtakeLock"}
                    /\ hist'[c].matched
                    /\ req[c].lockID = d.name
                    /\ req[c].ts = d.ts
      ]_vars

\* An unlock released a LOCKED record: the record in the collection is the
\* one it found, with state UNLOCKED and every other field as it was.
C21_Witness ==
    \E c \in Clients :
        /\ Done(c, "unlock")
        /\ hist[c].matched /\ hist[c].changed
        /\ \E e \in hist[c].pre :
             /\ e.state = LOCKED
             /\ e.ts = req[c].ts
             /\ hist[c].post = {[e EXCEPT !.state = UNLOCKED]}
        /\ hist[c].post \subseteq locks

====
